---- MODULE Spec2Model ----
(***************************************************************************)
(* Message admission counter of the SSV node (message/validation,         *)
(* message_counts.go): per-(duty, slot, round, signer) MessageCounts with  *)
(* Validate, Record and ReachedLimits, driven by a message pipeline that   *)
(* validates a message and records it only when validation succeeded.      *)
(* Further components, each under a specification of its own: the pubsub   *)
(* event tracer, the peer score inspector and the topic score parameter    *)
(* factory (network/topics), and the logger-fields descriptor builder      *)
(* (message/validation/logger_fields.go), and the decided stream publisher *)
(* of the exporter (exporter/api/decided/stream.go).                       *)
(***************************************************************************)
EXTENDS Integers, Sequences, FiniteSets, TLC

\* ------------------------------------------------------------------ bounds
MaxCommittee == 4   \* committee sizes 1..MaxCommittee
MaxSigners == 3     \* len(m.Signers) of a consensus message, 0..MaxSigners
MaxCount == 3       \* a message is not delivered once its own count is here

MaxEvents == 4      \* pubsub events traced in one run of the tracer
MaxValidators == 3  \* validator population read by topicScoreParams

MaxFeed == 2        \* messages sent to the broadcast feed in one run
MaxTime == 3        \* clock of the stream publisher, in ticks of 30 seconds

\* admission counter of one AdmissionKey and its (serialized) pipeline
VARIABLES counts, committeeSize, limits, pc, msg, err, reached, lastOp,
          panicked

\* two concurrent deliveries for the same AdmissionKey
VARIABLES useLock, lock, wpc, wmsg, werr, wtmp

\* pubsub event tracer
VARIABLES tracerState, metricsPubsubTrace, debugLogs, lastEvt

\* peer score inspector
VARIABLES scores, inspected, peerLogs, scoreGauge, scoreIdxWrites

\* topic score parameter factory
VARIABLES tspCall, tspResult, tspLogs

\* logger-fields descriptor builder
VARIABLES decodedMessage, descriptor

\* decided stream publisher: the cache's items, the broadcast feed, the clock,
\* and the position of each invocation of the handler
VARIABLES items, feed, now, useNewAPI, lastHandled, hpc, hmsg

admissionVars == <<counts, committeeSize, limits, pc, msg, err, reached,
                   lastOp, panicked>>

raceVars == <<useLock, lock, wpc, wmsg, werr, wtmp>>

tracerVars == <<tracerState, metricsPubsubTrace, debugLogs, lastEvt>>

inspectVars == <<scores, inspected, peerLogs, scoreGauge, scoreIdxWrites>>

paramsVars == <<tspCall, tspResult, tspLogs>>

describeVars == <<decodedMessage, descriptor>>

streamVars == <<items, feed, now, useNewAPI, lastHandled, hpc, hmsg>>

vars == <<admissionVars, raceVars, tracerVars, inspectVars, paramsVars,
          describeVars, streamVars>>

\* what the actions of the admission pipeline leave alone
notAdmissionVars == <<raceVars, tracerVars, inspectVars, paramsVars,
                      describeVars, streamVars>>

\* ------------------------------------------------------------ message kinds
Kinds == {"PreConsensus", "Proposal", "Prepare", "Commit", "Decided",
          "RoundChange", "PostConsensus"}

QBFTTypes == {"Proposal", "Prepare", "Commit", "RoundChange", "UnknownQBFT"}

PreConsensusTypes == {"Randao", "SelectionProof", "ContributionProofs",
                      "ValidatorRegistration"}

PartialSigTypes == PreConsensusTypes \cup {"PostConsensus", "UnknownPartialSig"}

\* msg.Body is a *specqbft.SignedMessage, a
\* *spectypes.SignedPartialSignatureMessage, or anything else (nil included).
Messages ==
    [body : {"SignedMessage"}, type : QBFTTypes, signers : 0..MaxSigners]
    \cup [body : {"SignedPartialSignatureMessage"}, type : PartialSigTypes,
          signers : {1}]
    \cup {[body |-> "Other", type |-> "None", signers |-> 0]}

NoMessage == [body |-> "Other", type |-> "None", signers |-> 0]

\* ------------------------------------------------------------ MessageCounts
MessageCounts(pre, proposal, prepare, commit, decided, rc, post) ==
    [PreConsensus |-> pre, Proposal |-> proposal, Prepare |-> prepare,
     Commit |-> commit, Decided |-> decided, RoundChange |-> rc,
     PostConsensus |-> post]

ZeroCounts == MessageCounts(0, 0, 0, 0, 0, 0, 0)

maxMessageCounts_DecidedNoSlack(size) ==
    MessageCounts(1, 1, 1, 1, size, 1, 1)

maxMessageCounts(size) ==
    MessageCounts(1, 1, 1, 1, size + 1, 1, 1)

\* ------------------------------------------------------- errors of Validate
NoError == [kind |-> "nil", got |-> ""]

ErrUnexpectedMessageType(g) == [kind |-> "ErrUnexpectedMessageType", got |-> g]

\* fmt.Errorf("unexpected message type: %d", m): a plain error value
ErrorfUnexpectedBody == [kind |-> "errorString", got |-> "unexpected message type"]

\* ----------------------------------------------------------------- Validate
ValidateProposal_NoDecided(c) ==
    IF c.Commit > 0 \/ c.PostConsensus > 0
    THEN ErrUnexpectedMessageType("proposal")
    ELSE NoError

ValidateProposal(c) ==
    IF c.Commit > 0 \/ c.Decided > 0 \/ c.PostConsensus > 0
    THEN ErrUnexpectedMessageType("proposal")
    ELSE NoError

ValidatePrepare_NoDuplicate(c) ==
    IF c.Commit > 0 \/ c.Decided > 0 \/ c.PostConsensus > 0
    THEN ErrUnexpectedMessageType("prepare")
    ELSE NoError

ValidatePrepare(c) ==
    IF c.Prepare > 0 \/ c.Commit > 0 \/ c.Decided > 0 \/ c.PostConsensus > 0
    THEN ErrUnexpectedMessageType("prepare")
    ELSE NoError

ValidateCommit_NoDuplicate(c, n) ==
    IF c.Decided > 0 \/ c.PostConsensus > 0
    THEN ErrUnexpectedMessageType("commit")
    ELSE IF (n > 1 /\ c.Decided > 0) \/ c.PostConsensus > 0
    THEN ErrUnexpectedMessageType("decided")
    ELSE NoError

\* Go precedence: a && b || c || d  is  (a && b) || c || d
ValidateCommit(c, n) ==
    IF (n = 1 /\ c.Commit > 0) \/ c.Decided > 0 \/ c.PostConsensus > 0
    THEN ErrUnexpectedMessageType("commit")
    ELSE IF (n > 1 /\ c.Decided > 0) \/ c.PostConsensus > 0
    THEN ErrUnexpectedMessageType("decided")
    ELSE NoError

ValidateRoundChange_OffByOne(c) ==
    IF c.RoundChange > 1
    THEN ErrUnexpectedMessageType("round change")
    ELSE NoError

ValidateRoundChange(c) ==
    IF c.RoundChange > 0
    THEN ErrUnexpectedMessageType("round change")
    ELSE NoError

ValidatePartialSig_MissingType(c, t) ==
    IF t \in PreConsensusTypes \ {"ValidatorRegistration"}
    THEN IF c.PreConsensus > 0
         THEN ErrUnexpectedMessageType("pre-consensus")
         ELSE NoError
    ELSE IF t = "PostConsensus"
    THEN IF c.PostConsensus > 0
         THEN ErrUnexpectedMessageType("post-consensus")
         ELSE NoError
    ELSE NoError

ValidatePartialSig(c, t) ==
    IF t \in PreConsensusTypes
    THEN IF c.PreConsensus > 0
         THEN ErrUnexpectedMessageType("pre-consensus")
         ELSE NoError
    ELSE IF t = "PostConsensus"
    THEN IF c.PostConsensus > 0
         THEN ErrUnexpectedMessageType("post-consensus")
         ELSE NoError
    ELSE NoError    \* default: TODO: handle

Validate(c, m) ==
    CASE m.body = "SignedMessage" ->
           (CASE m.type = "Proposal" -> ValidateProposal(c)
              [] m.type = "Prepare" -> ValidatePrepare(c)
              [] m.type = "Commit" -> ValidateCommit(c, m.signers)
              [] m.type = "RoundChange" -> ValidateRoundChange(c)
              [] OTHER -> NoError)
      [] m.body = "SignedPartialSignatureMessage" -> ValidatePartialSig(c, m.type)
      [] OTHER -> ErrorfUnexpectedBody

\* ------------------------------------------------------------------- Record
\* The field Record increments for m, "None" when it increments nothing and
\* "Panic" for a body that is neither message type.
RecordedKind_CommitAsDecided(m) ==
    CASE m.body = "SignedMessage" ->
           (CASE m.type = "Proposal" -> "Proposal"
              [] m.type = "Prepare" -> "Prepare"
              [] m.type = "Commit" ->
                   IF m.signers >= 1 THEN "Decided" ELSE "None"
              [] m.type = "RoundChange" -> "RoundChange"
              [] OTHER -> "None")
      [] m.body = "SignedPartialSignatureMessage" ->
           (CASE m.type \in PreConsensusTypes -> "PreConsensus"
              [] m.type = "PostConsensus" -> "PostConsensus"
              [] OTHER -> "None")
      [] OTHER -> "Panic"

RecordedKind(m) ==
    CASE m.body = "SignedMessage" ->
           (CASE m.type = "Proposal" -> "Proposal"
              [] m.type = "Prepare" -> "Prepare"
              [] m.type = "Commit" ->
                   IF m.signers = 1 THEN "Commit"
                   ELSE IF m.signers > 1 THEN "Decided"
                   ELSE "None"
              [] m.type = "RoundChange" -> "RoundChange"
              [] OTHER -> "None")
      [] m.body = "SignedPartialSignatureMessage" ->
           (CASE m.type \in PreConsensusTypes -> "PreConsensus"
              [] m.type = "PostConsensus" -> "PostConsensus"
              [] OTHER -> "None")
      [] OTHER -> "Panic"

Record_ResetOthers(c, m) ==
    IF RecordedKind(m) \in Kinds
    THEN [ZeroCounts EXCEPT ![RecordedKind(m)] = c[RecordedKind(m)] + 1]
    ELSE c

Record(c, m) ==
    IF RecordedKind(m) \in Kinds
    THEN [c EXCEPT ![RecordedKind(m)] = @ + 1]
    ELSE c

\* ------------------------------------------------------------ ReachedLimits
ReachedLimits_And(c, l) ==
    /\ c.PreConsensus >= l.PreConsensus
    /\ c.Proposal >= l.Proposal
    /\ c.Prepare >= l.Prepare
    /\ c.Commit >= l.Commit
    /\ c.Decided >= l.Decided
    /\ c.RoundChange >= l.RoundChange
    /\ c.PostConsensus >= l.PostConsensus

ReachedLimits_StrictDecided(c, l) ==
    \/ c.PreConsensus >= l.PreConsensus
    \/ c.Proposal >= l.Proposal
    \/ c.Prepare >= l.Prepare
    \/ c.Commit >= l.Commit
    \/ c.Decided > l.Decided
    \/ c.RoundChange >= l.RoundChange
    \/ c.PostConsensus >= l.PostConsensus

ReachedLimits(c, l) ==
    \/ c.PreConsensus >= l.PreConsensus
    \/ c.Proposal >= l.Proposal
    \/ c.Prepare >= l.Prepare
    \/ c.Commit >= l.Commit
    \/ c.Decided >= l.Decided
    \/ c.RoundChange >= l.RoundChange
    \/ c.PostConsensus >= l.PostConsensus

\* ------------------------------------------------------------ state machine
\* The components not exercised by a specification rest in these states.
Workers == {"w1", "w2"}

RaceIdle ==
    /\ useLock = FALSE
    /\ lock = "free"
    /\ wpc = [w \in Workers |-> "start"]
    /\ wmsg = [w \in Workers |-> NoMessage]
    /\ werr = [w \in Workers |-> NoError]
    /\ wtmp = [w \in Workers |-> 0]

TracerIdle ==
    /\ tracerState = 0
    /\ metricsPubsubTrace = <<>>
    /\ debugLogs = <<>>
    /\ lastEvt = "none"

InspectIdle ==
    /\ scores = <<>>
    /\ inspected = {}
    /\ peerLogs = <<>>
    /\ scoreGauge = <<>>
    /\ scoreIdxWrites = 0

\* a nil *pubsub.TopicScoreParams
NilParams == [nil |-> TRUE, totalValidators |-> 0]

NoStats == [totalValidators |-> 0, activeValidators |-> 0, myValidators |-> 0,
            err |-> FALSE]

ParamsIdle ==
    /\ tspCall = [topic |-> "none", stats |-> NoStats, deriveFails |-> FALSE]
    /\ tspResult = NilParams
    /\ tspLogs = <<>>

\* a nil *queue.DecodedSSVMessage
NilDecodedMessage ==
    [isNil |-> TRUE, DutyExecutorID |-> <<>>, Role |-> 0, MsgType |-> 0,
     OperatorIDs |-> <<>>,
     Body |-> [kind |-> "Other", isNil |-> TRUE, Height |-> 0, Round |-> 0,
               MsgType |-> 0, Slot |-> 0]]

\* the zero LoggerFields behind a non-nil pointer, Consensus pointing at a
\* zero ConsensusFields
ZeroLoggerFields ==
    [state |-> "built", DutyExecutorID |-> <<>>, Role |-> 0,
     SSVMessageType |-> 0, Slot |-> 0,
     Consensus |-> [isNil |-> FALSE, Round |-> 0, QBFTMessageType |-> 0],
     OperatorIDs |-> <<>>]

DescribeIdle ==
    /\ decodedMessage = NilDecodedMessage
    /\ descriptor = [ZeroLoggerFields EXCEPT !.state = "none"]

\* a zero qbftstorage.ParticipantsRangeEntry
NoEntry == [Identifier |-> <<>>, Slot |-> 0, Signers |-> <<>>]

Handlers == {"h1", "h2"}

StreamIdle ==
    /\ items = {}
    /\ feed = <<>>
    /\ now = 0
    /\ useNewAPI = FALSE
    /\ lastHandled = [msg |-> NoEntry, sent |-> FALSE, at |-> 0]
    /\ hpc = [h \in Handlers |-> "idle"]
    /\ hmsg = [h \in Handlers |-> NoEntry]

NotAdmissionIdle ==
    /\ RaceIdle /\ TracerIdle /\ InspectIdle /\ ParamsIdle /\ DescribeIdle
    /\ StreamIdle

\* One AdmissionKey: fresh counts, the limits of the key's committee.
Init ==
    /\ counts = ZeroCounts
    /\ committeeSize \in 1..MaxCommittee
    /\ limits = maxMessageCounts(committeeSize)
    /\ pc = "idle"
    /\ msg = NoMessage
    /\ err = NoError
    /\ reached = FALSE
    /\ lastOp = "init"
    /\ panicked = FALSE
    /\ NotAdmissionIdle

\* The pipeline hands a delivered message to counts.Validate(msg).
ValidateStep(m) ==
    /\ pc = "idle"
    /\ RecordedKind(m) \in Kinds => counts[RecordedKind(m)] < MaxCount
    /\ msg' = m
    /\ err' = Validate(counts, m)
    /\ pc' = "validated"
    /\ lastOp' = "Validate"
    /\ UNCHANGED <<counts, committeeSize, limits, reached, panicked>>
    /\ UNCHANGED notAdmissionVars

\* Validation succeeded: counts.Record(msg).
RecordStep ==
    /\ pc = "validated"
    /\ err = NoError
    /\ RecordedKind(msg) # "Panic"
    /\ counts' = Record(counts, msg)
    /\ pc' = "idle"
    /\ lastOp' = "Record"
    /\ UNCHANGED <<committeeSize, limits, msg, err, reached, panicked>>
    /\ UNCHANGED notAdmissionVars

\* Validation failed: the pipeline drops the message without recording it.
RejectStep ==
    /\ pc = "validated"
    /\ err # NoError
    /\ pc' = "idle"
    /\ lastOp' = "Reject"
    /\ UNCHANGED <<counts, committeeSize, limits, msg, err, reached, panicked>>
    /\ UNCHANGED notAdmissionVars

\* counts.ReachedLimits(limits)
ReachedLimitsStep ==
    /\ pc = "idle"
    /\ reached' = ReachedLimits(counts, limits)
    /\ lastOp' = "ReachedLimits"
    /\ UNCHANGED <<counts, committeeSize, limits, pc, msg, err, panicked>>
    /\ UNCHANGED notAdmissionVars

Next ==
    \/ \E m \in Messages : ValidateStep(m)
    \/ RecordStep
    \/ RejectStep
    \/ ReachedLimitsStep

Spec == Init /\ [][Next]_vars

\* ------------------------------------------- the three methods, called freely
\* Validate, Record and ReachedLimits are exported methods: here a caller
\* invokes them in any order with any message.  A panic ends the process.
TotalCount(c) ==
    c.PreConsensus + c.Proposal + c.Prepare + c.Commit + c.Decided
        + c.RoundChange + c.PostConsensus

DirectValidate_Recording(m) ==
    /\ ~panicked
    /\ msg' = m
    /\ err' = Validate(counts, m)
    /\ counts' = IF Validate(counts, m) = NoError /\ TotalCount(counts) < MaxCount
                 THEN Record(counts, m)
                 ELSE counts
    /\ lastOp' = "Validate"
    /\ UNCHANGED <<committeeSize, limits, pc, reached, panicked>>
    /\ UNCHANGED notAdmissionVars

DirectValidate(m) ==
    /\ ~panicked
    /\ msg' = m
    /\ err' = Validate(counts, m)
    /\ lastOp' = "Validate"
    /\ UNCHANGED <<counts, committeeSize, limits, pc, reached, panicked>>
    /\ UNCHANGED notAdmissionVars

DirectRecord(m) ==
    /\ ~panicked
    /\ TotalCount(counts) < MaxCount
    /\ msg' = m
    /\ counts' = Record(counts, m)
    /\ panicked' = (RecordedKind(m) = "Panic")
    /\ lastOp' = "Record"
    /\ UNCHANGED <<committeeSize, limits, pc, err, reached>>
    /\ UNCHANGED notAdmissionVars

DirectReachedLimits ==
    /\ ~panicked
    /\ reached' = ReachedLimits(counts, limits)
    /\ lastOp' = "ReachedLimits"
    /\ UNCHANGED <<counts, committeeSize, limits, pc, msg, err, panicked>>
    /\ UNCHANGED notAdmissionVars

NextDirect ==
    \/ \E m \in Messages : DirectValidate(m)
    \/ \E m \in Messages : DirectRecord(m)
    \/ DirectReachedLimits

SpecDirect == Init /\ [][NextDirect]_vars

\* ------------------------------------ two concurrent deliveries for one key
\* Each worker delivers one message: Validate, then Record on success.  With
\* useLock the pair runs under the key's lock; without it the steps of the
\* two workers interleave freely, c.X++ being a load and a store.
notRaceVars == <<committeeSize, limits, pc, msg, err, reached, lastOp,
                 panicked, tracerVars, inspectVars, paramsVars, describeVars,
                 streamVars>>

InitRace ==
    /\ counts = ZeroCounts
    /\ committeeSize = MaxCommittee
    /\ limits = maxMessageCounts(committeeSize)
    /\ pc = "idle"
    /\ msg = NoMessage
    /\ err = NoError
    /\ reached = FALSE
    /\ lastOp = "init"
    /\ panicked = FALSE
    /\ useLock \in BOOLEAN
    /\ lock = "free"
    /\ wpc = [w \in Workers |-> "start"]
    /\ wmsg = [w \in Workers |-> NoMessage]
    /\ werr = [w \in Workers |-> NoError]
    /\ wtmp = [w \in Workers |-> 0]
    /\ TracerIdle /\ InspectIdle /\ ParamsIdle /\ DescribeIdle
    /\ StreamIdle

DeliverW(w, m) ==
    /\ wpc[w] = "start"
    /\ useLock => lock = "free"
    /\ lock' = IF useLock THEN w ELSE lock
    /\ wmsg' = [wmsg EXCEPT ![w] = m]
    /\ wpc' = [wpc EXCEPT ![w] = "validate"]
    /\ UNCHANGED <<counts, useLock, werr, wtmp>>
    /\ UNCHANGED notRaceVars

ValidateW(w) ==
    /\ wpc[w] = "validate"
    /\ werr' = [werr EXCEPT ![w] = Validate(counts, wmsg[w])]
    /\ wpc' = [wpc EXCEPT ![w] = "validated"]
    /\ UNCHANGED <<counts, useLock, lock, wmsg, wtmp>>
    /\ UNCHANGED notRaceVars

RecordLoadW(w) ==
    /\ wpc[w] = "validated"
    /\ werr[w] = NoError
    /\ wtmp' = [wtmp EXCEPT ![w] = IF RecordedKind(wmsg[w]) \in Kinds
                                   THEN counts[RecordedKind(wmsg[w])]
                                   ELSE 0]
    /\ wpc' = [wpc EXCEPT ![w] = "store"]
    /\ UNCHANGED <<counts, useLock, lock, wmsg, werr>>
    /\ UNCHANGED notRaceVars

RecordStoreW(w) ==
    /\ wpc[w] = "store"
    /\ counts' = IF RecordedKind(wmsg[w]) \in Kinds
                 THEN [counts EXCEPT ![RecordedKind(wmsg[w])] = wtmp[w] + 1]
                 ELSE counts
    /\ wpc' = [wpc EXCEPT ![w] = "unlock"]
    /\ UNCHANGED <<useLock, lock, wmsg, werr, wtmp>>
    /\ UNCHANGED notRaceVars

RejectW(w) ==
    /\ wpc[w] = "validated"
    /\ werr[w] # NoError
    /\ wpc' = [wpc EXCEPT ![w] = "unlock"]
    /\ UNCHANGED <<counts, useLock, lock, wmsg, werr, wtmp>>
    /\ UNCHANGED notRaceVars

ReleaseW(w) ==
    /\ wpc[w] = "unlock"
    /\ lock' = IF useLock THEN "free" ELSE lock
    /\ wpc' = [wpc EXCEPT ![w] = "done"]
    /\ UNCHANGED <<counts, useLock, wmsg, werr, wtmp>>
    /\ UNCHANGED notRaceVars

NextRace ==
    \/ \E w \in Workers, m \in Messages : DeliverW(w, m)
    \/ \E w \in Workers : ValidateW(w)
    \/ \E w \in Workers : RecordLoadW(w)
    \/ \E w \in Workers : RecordStoreW(w)
    \/ \E w \in Workers : RejectW(w)
    \/ \E w \in Workers : ReleaseW(w)

SpecRace == InitRace /\ [][NextRace]_vars

\* ------------------------------------------------------ pubsub event tracer
psTraceStateWithReporting == 0

psTraceStateWithLogging == 1

\* evt.GetType(): a few of the pubsub trace event types
EventTypes == {"PUBLISH_MESSAGE", "REJECT_MESSAGE", "GRAFT"}

newTracer(withLogging) ==
    IF withLogging THEN psTraceStateWithLogging ELSE psTraceStateWithReporting

\* metricsPubsubTrace.WithLabelValues(evt.GetType().String()).Inc()
report(metric, evt) == [metric EXCEPT ![evt] = @ + 1]

\* Trace returns before pst.log(evt) when state < psTraceStateWithLogging
TraceLogs_Inverted(state) == state < psTraceStateWithLogging

TraceLogs(state) == ~(state < psTraceStateWithLogging)

TracedEvents ==
    metricsPubsubTrace["PUBLISH_MESSAGE"] + metricsPubsubTrace["REJECT_MESSAGE"]
        + metricsPubsubTrace["GRAFT"]

notTracerVars == <<admissionVars, raceVars, inspectVars, paramsVars,
                   describeVars, streamVars>>

InitTracer ==
    /\ \E withLogging \in BOOLEAN : tracerState = newTracer(withLogging)
    /\ metricsPubsubTrace = [t \in EventTypes |-> 0]
    /\ debugLogs = <<>>
    /\ lastEvt = "none"
    /\ counts = ZeroCounts
    /\ committeeSize = 1
    /\ limits = maxMessageCounts(1)
    /\ pc = "idle"
    /\ msg = NoMessage
    /\ err = NoError
    /\ reached = FALSE
    /\ lastOp = "init"
    /\ panicked = FALSE
    /\ RaceIdle /\ InspectIdle /\ ParamsIdle /\ DescribeIdle
    /\ StreamIdle

Trace(evt) ==
    /\ TracedEvents < MaxEvents
    /\ metricsPubsubTrace' = report(metricsPubsubTrace, evt)
    /\ debugLogs' = IF TraceLogs(tracerState)
                    THEN Append(debugLogs, evt)
                    ELSE debugLogs
    /\ lastEvt' = evt
    /\ UNCHANGED tracerState
    /\ UNCHANGED notTracerVars

NextTracer == \E evt \in EventTypes : Trace(evt)

SpecTracer == InitTracer /\ [][NextTracer]_vars

\* ------------------------------------------------------ peer score inspector
\* Scores and delivery counters are float64 in the code; the values used here
\* are integers (perfect squares where a root is taken), so the arithmetic
\* is exact and -1001 stands for any score below -1000.
Peers == {"p1", "p2"}

Topics == {"t1", "t2"}

ScoreValues == {-1001, -1000, 0}

InvalidDeliveryValues == {-1, 0, 4}

MeshDeliveryValues == {0, 1}

TopicScoreSnapshots ==
    [InvalidMessageDeliveries : InvalidDeliveryValues,
     MeshMessageDeliveries : MeshDeliveryValues]

PeerScoreSnapshots ==
    [Score : ScoreValues, Topics : [Topics -> TopicScoreSnapshots],
     IPColocationFactor : {0}, BehaviourPenalty : {0}, AppSpecificScore : {0}]

\* peerScoreParams.Topics: only t1 has configured score parameters
peerScoreParams ==
    [Topics |-> [t \in {"t1"} |-> [MeshMessageDeliveriesThreshold |-> 1]]]

\* math.Sqrt on a perfect square
Sqrt(x) == CHOOSE r \in 0..x : r * r = x

InvalidContribution_NoSqrt(imd) == IF imd > 0 THEN imd ELSE 0

\* if snapshot.InvalidMessageDeliveries > 0 { total += math.Sqrt(...) }
InvalidContribution(imd) == IF imd > 0 THEN Sqrt(imd) ELSE 0

LowMesh_Inclusive(topic, snapshot) ==
    /\ topic \in DOMAIN peerScoreParams.Topics
    /\ snapshot.MeshMessageDeliveries
          <= peerScoreParams.Topics[topic].MeshMessageDeliveriesThreshold

LowMesh(topic, snapshot) ==
    /\ topic \in DOMAIN peerScoreParams.Topics
    /\ snapshot.MeshMessageDeliveries
          < peerScoreParams.Topics[topic].MeshMessageDeliveriesThreshold

LowScore_Inclusive(score) == score <= -1000

LowScore(score) == score < -1000

\* for topic, snapshot := range peerScores.Topics { ... }
RECURSIVE TopicLoop(_, _, _)
TopicLoop(topicScores, remaining, acc) ==
    IF remaining = {}
    THEN acc
    ELSE LET topic == CHOOSE t \in remaining : TRUE
             snapshot == topicScores[topic]
         IN TopicLoop(topicScores, remaining \ {topic},
                [filtered |->
                    IF snapshot.InvalidMessageDeliveries # 0
                    THEN acc.filtered \cup {topic}
                    ELSE acc.filtered,
                 totalInvalidMessages |->
                    acc.totalInvalidMessages
                        + InvalidContribution(snapshot.InvalidMessageDeliveries),
                 totalLowMeshDeliveries |->
                    IF LowMesh(topic, snapshot)
                    THEN acc.totalLowMeshDeliveries + 1
                    ELSE acc.totalLowMeshDeliveries])

\* the fields of the "peer scores" debug record
PeerScoresRecord(pid, peerScores, connected) ==
    LET loop == TopicLoop(peerScores.Topics, DOMAIN peerScores.Topics,
                    [filtered |-> {}, totalInvalidMessages |-> 0,
                     totalLowMeshDeliveries |-> 0])
    IN [peer |-> pid,
        score |-> peerScores.Score,
        invalid_messages |-> [t \in loop.filtered |-> peerScores.Topics[t]],
        ip_colocation |-> peerScores.IPColocationFactor,
        behaviour_penalty |-> peerScores.BehaviourPenalty,
        app_specific_penalty |-> peerScores.AppSpecificScore,
        total_low_mesh_deliveries |-> loop.totalLowMeshDeliveries,
        total_invalid_messages |-> loop.totalInvalidMessages,
        connected |-> connected,
        low_score |-> LowScore(peerScores.Score)]

notInspectVars == <<admissionVars, raceVars, tracerVars, paramsVars,
                    describeVars, streamVars>>

\* The gossip engine hands the inspector a snapshot of all peers' scores.
InitInspect ==
    /\ scores \in [Peers -> PeerScoreSnapshots]
    /\ inspected = {}
    /\ peerLogs = [p \in Peers |-> <<>>]
    /\ scoreGauge = [p \in Peers |-> <<>>]
    /\ scoreIdxWrites = 0
    /\ counts = ZeroCounts
    /\ committeeSize = 1
    /\ limits = maxMessageCounts(1)
    /\ pc = "idle"
    /\ msg = NoMessage
    /\ err = NoError
    /\ reached = FALSE
    /\ lastOp = "init"
    /\ panicked = FALSE
    /\ RaceIdle /\ TracerIdle /\ ParamsIdle /\ DescribeIdle
    /\ StreamIdle

\* One iteration of "for pid, peerScores := range scores"; the map is ranged
\* in any order, peerConnected(pid) is the caller's predicate.
InspectPeer_ScoreIdx(pid, connected) ==
    /\ pid \notin inspected
    /\ peerLogs' = [peerLogs EXCEPT ![pid] =
                       Append(@, PeerScoresRecord(pid, scores[pid], connected))]
    /\ scoreGauge' = [scoreGauge EXCEPT ![pid] = Append(@, scores[pid].Score)]
    /\ inspected' = inspected \cup {pid}
    /\ scoreIdxWrites' = scoreIdxWrites + 1
    /\ UNCHANGED scores
    /\ UNCHANGED notInspectVars

InspectPeer(pid, connected) ==
    /\ pid \notin inspected
    /\ peerLogs' = [peerLogs EXCEPT ![pid] =
                       Append(@, PeerScoresRecord(pid, scores[pid], connected))]
    /\ scoreGauge' = [scoreGauge EXCEPT ![pid] = Append(@, scores[pid].Score)]
    /\ inspected' = inspected \cup {pid}
    /\ UNCHANGED <<scores, scoreIdxWrites>>
    /\ UNCHANGED notInspectVars

NextInspect == \E pid \in Peers, connected \in BOOLEAN : InspectPeer(pid, connected)

SpecInspect == InitInspect /\ [][NextInspect]_vars

\* ----------------------------------------------- topic score parameter factory
\* cfg.GetValidatorStats(): (total, active, my validators, err)
ValidatorStats ==
    {st \in [totalValidators : 0..MaxValidators,
             activeValidators : 0..MaxValidators,
             myValidators : 0..MaxValidators, err : BOOLEAN] :
        /\ st.activeValidators <= st.totalValidators
        /\ st.myValidators <= st.activeValidators}

\* The function returned by topicScoreParams, applied to topic t; stats is
\* what GetValidatorStats returns and deriveFails whether params.TopicParams
\* returns an error for the options built from it.
topicScoreParams_IgnoreStatsErr(t, stats, deriveFails) ==
    IF deriveFails
    THEN [result |-> NilParams,
          logs |-> <<"got validator stats for score params",
                     "ignoring topic score params">>]
    ELSE [result |-> [nil |-> FALSE, totalValidators |-> stats.totalValidators],
          logs |-> <<"got validator stats for score params">>]

topicScoreParams(t, stats, deriveFails) ==
    IF stats.err
    THEN [result |-> NilParams,
          logs |-> <<"could not read stats: active validators">>]
    ELSE IF deriveFails
    THEN [result |-> NilParams,
          logs |-> <<"got validator stats for score params",
                     "ignoring topic score params">>]
    ELSE [result |-> [nil |-> FALSE, totalValidators |-> stats.totalValidators],
          logs |-> <<"got validator stats for score params">>]

notParamsVars == <<admissionVars, raceVars, tracerVars, inspectVars,
                   describeVars, streamVars>>

InitParams ==
    /\ ParamsIdle
    /\ counts = ZeroCounts
    /\ committeeSize = 1
    /\ limits = maxMessageCounts(1)
    /\ pc = "idle"
    /\ msg = NoMessage
    /\ err = NoError
    /\ reached = FALSE
    /\ lastOp = "init"
    /\ panicked = FALSE
    /\ RaceIdle /\ TracerIdle /\ InspectIdle /\ DescribeIdle
    /\ StreamIdle

\* The gossip engine asks for the score parameters of topic t.
TopicScoreParamsCall(t, stats, deriveFails) ==
    /\ tspCall' = [topic |-> t, stats |-> stats, deriveFails |-> deriveFails]
    /\ tspResult' = topicScoreParams(t, stats, deriveFails).result
    /\ tspLogs' = topicScoreParams(t, stats, deriveFails).logs
    /\ UNCHANGED notParamsVars

NextParams ==
    \E t \in Topics, stats \in ValidatorStats, deriveFails \in BOOLEAN :
        TopicScoreParamsCall(t, stats, deriveFails)

SpecParams == InitParams /\ [][NextParams]_vars

\* ------------------------------------------- logger-fields descriptor builder
\* decodedMessage.Body: a *specqbft.Message, a
\* *spectypes.PartialSignatureMessages (either may be a nil pointer), or
\* something else
MessageBodies ==
    [kind : {"Message"}, isNil : {FALSE}, Height : 1..2, Round : 1..2,
     MsgType : 0..1, Slot : {0}]
    \cup [kind : {"PartialSignatureMessages"}, isNil : {FALSE}, Height : {0},
          Round : {0}, MsgType : {0}, Slot : 1..2]
    \cup [kind : {"Message", "PartialSignatureMessages", "Other"},
          isNil : {TRUE}, Height : {0}, Round : {0}, MsgType : {0}, Slot : {0}]

DecodedMessages ==
    [isNil : {FALSE}, DutyExecutorID : {<<1>>, <<2>>}, Role : 0..1,
     MsgType : 0..1, OperatorIDs : {<<>>, <<1>>, <<1, 2>>},
     Body : MessageBodies]
    \cup {NilDecodedMessage}

\* lines 61-77: the fields copied from a non-nil message
filledLoggerFields(m) ==
    [state |-> "built",
     DutyExecutorID |-> m.DutyExecutorID,
     Role |-> m.Role,
     SSVMessageType |-> m.MsgType,
     Slot |-> IF m.Body.isNil THEN 0
              ELSE IF m.Body.kind = "Message" THEN m.Body.Height
              ELSE IF m.Body.kind = "PartialSignatureMessages" THEN m.Body.Slot
              ELSE 0,
     Consensus |-> IF m.Body.kind = "Message" /\ ~m.Body.isNil
                   THEN [isNil |-> FALSE, Round |-> m.Body.Round,
                         QBFTMessageType |-> m.Body.MsgType]
                   ELSE [isNil |-> FALSE, Round |-> 0, QBFTMessageType |-> 0],
     OperatorIDs |-> m.OperatorIDs]

\* without the nil check decodedMessage.GetID() dereferences a nil pointer
buildLoggerFields_NoNilCheck(m) ==
    IF m.isNil
    THEN [ZeroLoggerFields EXCEPT !.state = "panic"]
    ELSE filledLoggerFields(m)

buildLoggerFields(m) ==
    IF m.isNil
    THEN ZeroLoggerFields
    ELSE filledLoggerFields(m)

notDescribeVars == <<admissionVars, raceVars, tracerVars, inspectVars,
                     paramsVars, streamVars>>

InitDescribe ==
    /\ DescribeIdle
    /\ counts = ZeroCounts
    /\ committeeSize = 1
    /\ limits = maxMessageCounts(1)
    /\ pc = "idle"
    /\ msg = NoMessage
    /\ err = NoError
    /\ reached = FALSE
    /\ lastOp = "init"
    /\ panicked = FALSE
    /\ RaceIdle /\ TracerIdle /\ InspectIdle /\ ParamsIdle
    /\ StreamIdle

BuildLoggerFields(m) ==
    /\ decodedMessage' = m
    /\ descriptor' = buildLoggerFields(m)
    /\ UNCHANGED notDescribeVars

NextDescribe == \E m \in DecodedMessages : BuildLoggerFields(m)

SpecDescribe == InitDescribe /\ [][NextDescribe]_vars

\* ------------------------------------------------ decided stream publisher
\* NewStreamPublisher returns a handler that forwards a newly decided message
\* to the websocket broadcast feed unless its key is in a cache whose entries
\* live one minute.  One tick of the clock is 30 seconds.
DefaultExpiration == 2   \* time.Minute
CleanupInterval == 3     \* time.Minute*3/2

IdentifierA == <<10, 27>>
IdentifierB == <<171, 0>>

\* decided messages: one entry, and entries that differ from it in the
\* signers' identity only, in the signer count, in the slot, in the identifier
Entries ==
    {[Identifier |-> IdentifierA, Slot |-> 1, Signers |-> <<1>>],
     [Identifier |-> IdentifierA, Slot |-> 1, Signers |-> <<2>>],
     [Identifier |-> IdentifierA, Slot |-> 1, Signers |-> <<1, 2>>],
     [Identifier |-> IdentifierA, Slot |-> 11, Signers |-> <<1>>],
     [Identifier |-> IdentifierB, Slot |-> 1, Signers |-> <<1>>]}

HexDigits == <<"0", "1", "2", "3", "4", "5", "6", "7",
               "8", "9", "a", "b", "c", "d", "e", "f">>

RECURSIVE EncodeToString(_)
EncodeToString(bytes) ==
    IF bytes = <<>>
    THEN ""
    ELSE HexDigits[(Head(bytes) \div 16) + 1]
         \o HexDigits[(Head(bytes) % 16) + 1]
         \o EncodeToString(Tail(bytes))

key_NoSigners(m) ==
    EncodeToString(m.Identifier) \o ":" \o ToString(m.Slot)

\* fmt.Sprintf("%s:%d:%d", identifier, msg.Slot, len(msg.Signers))
key(m) ==
    EncodeToString(m.Identifier) \o ":" \o ToString(m.Slot)
        \o ":" \o ToString(Len(m.Signers))

\* c.Get: an item is found unless the clock has passed its expiration
CacheGet(its, k, t) == \E it \in its : it.k = k /\ ~(t > it.Expiration)

\* c.SetDefault: the item replaces the key's, expiring DefaultExpiration on
CacheSetDefault(its, k, t) ==
    {it \in its : it.k # k} \cup {[k |-> k, Expiration |-> t + DefaultExpiration]}

\* the cache's janitor: DeleteExpired
DeleteExpired(its, t) == {it \in its : ~(t > it.Expiration)}

\* api.NewParticipantsAPIMsg(msg) or api.NewDecidedAPIMsg(msg), as sent
APIMsg(m, t) ==
    [api |-> IF useNewAPI THEN "participants" ELSE "decided",
     msg |-> m, at |-> t]

notStreamVars == <<admissionVars, raceVars, tracerVars, inspectVars,
                   paramsVars, describeVars>>

InitStream ==
    /\ counts = ZeroCounts
    /\ committeeSize = 1
    /\ limits = maxMessageCounts(committeeSize)
    /\ pc = "idle"
    /\ msg = NoMessage
    /\ err = NoError
    /\ reached = FALSE
    /\ lastOp = "init"
    /\ panicked = FALSE
    /\ RaceIdle /\ TracerIdle /\ InspectIdle /\ ParamsIdle /\ DescribeIdle
    /\ items = {}
    /\ feed = <<>>
    /\ now = 0
    /\ useNewAPI \in BOOLEAN
    /\ lastHandled = [msg |-> NoEntry, sent |-> FALSE, at |-> 0]
    /\ hpc = [h \in Handlers |-> "idle"]
    /\ hmsg = [h \in Handlers |-> NoEntry]

\* One whole invocation of the handler, invocations following one another.
Handler(m) ==
    LET ok == CacheGet(items, key(m), now) IN
    /\ ~ok => Len(feed) < MaxFeed
    /\ items' = IF ok THEN items ELSE CacheSetDefault(items, key(m), now)
    /\ feed' = IF ok THEN feed ELSE Append(feed, APIMsg(m, now))
    /\ lastHandled' = [msg |-> m, sent |-> ~ok, at |-> now]
    /\ UNCHANGED <<now, useNewAPI, hpc, hmsg>>
    /\ UNCHANGED notStreamVars

Tick ==
    /\ now < MaxTime
    /\ now' = now + 1
    /\ UNCHANGED <<items, feed, useNewAPI, lastHandled, hpc, hmsg>>
    /\ UNCHANGED notStreamVars

\* The janitor's ticker fires every CleanupInterval.
Janitor ==
    /\ now > 0
    /\ now % CleanupInterval = 0
    /\ items' = DeleteExpired(items, now)
    /\ UNCHANGED <<feed, now, useNewAPI, lastHandled, hpc, hmsg>>
    /\ UNCHANGED notStreamVars

NextStream ==
    \/ \E m \in Entries : Handler(m)
    \/ Tick
    \/ Janitor

SpecStream == InitStream /\ [][NextStream]_vars

\* ------------------------------------- two concurrent handler invocations
\* The handler is called from two goroutines at once; c.Get, c.SetDefault and
\* feed.Send are each atomic, the handler as a whole takes no lock.
InitStreamRace == InitStream

Invoke(h, m) ==
    /\ hpc[h] = "idle"
    /\ hpc' = [hpc EXCEPT ![h] = "get"]
    /\ hmsg' = [hmsg EXCEPT ![h] = m]
    /\ UNCHANGED <<items, feed, now, useNewAPI, lastHandled>>
    /\ UNCHANGED notStreamVars

GetH(h) ==
    /\ hpc[h] = "get"
    /\ hpc' = [hpc EXCEPT ![h] = IF CacheGet(items, key(hmsg[h]), now)
                                 THEN "done"
                                 ELSE "set"]
    /\ UNCHANGED <<items, feed, now, useNewAPI, lastHandled, hmsg>>
    /\ UNCHANGED notStreamVars

SetDefaultH(h) ==
    /\ hpc[h] = "set"
    /\ items' = CacheSetDefault(items, key(hmsg[h]), now)
    /\ hpc' = [hpc EXCEPT ![h] = "send"]
    /\ UNCHANGED <<feed, now, useNewAPI, lastHandled, hmsg>>
    /\ UNCHANGED notStreamVars

SendH(h) ==
    /\ hpc[h] = "send"
    /\ feed' = Append(feed, APIMsg(hmsg[h], now))
    /\ lastHandled' = [msg |-> hmsg[h], sent |-> TRUE, at |-> now]
    /\ hpc' = [hpc EXCEPT ![h] = "done"]
    /\ UNCHANGED <<items, now, useNewAPI, hmsg>>
    /\ UNCHANGED notStreamVars

NextStreamRace ==
    \/ \E h \in Handlers, m \in Entries : Invoke(h, m)
    \/ \E h \in Handlers : GetH(h)
    \/ \E h \in Handlers : SetDefaultH(h)
    \/ \E h \in Handlers : SendH(h)

SpecStreamRace == InitStreamRace /\ [][NextStreamRace]_vars

\* ----------------------------------------------------------------- helpers
TypeOK ==
    /\ counts \in [Kinds -> 0..MaxCount]
    /\ committeeSize \in 1..MaxCommittee
    /\ pc \in {"idle", "validated"}
    /\ msg \in Messages
    /\ reached \in BOOLEAN

Validated(m) == pc = "validated" /\ msg = m

IsQBFT(t) == pc = "validated" /\ msg.body = "SignedMessage" /\ msg.type = t

Rejected == err.kind = "ErrUnexpectedMessageType"

ProposalMsg == [body |-> "SignedMessage", type |-> "Proposal", signers |-> 1]

PrepareMsg == [body |-> "SignedMessage", type |-> "Prepare", signers |-> 1]

SingleCommitMsg == [body |-> "SignedMessage", type |-> "Commit", signers |-> 1]

IsSingleCommit == IsQBFT("Commit") /\ msg.signers = 1

IsDecided == IsQBFT("Commit") /\ msg.signers > 1

LaterSeen == counts.Commit > 0 \/ counts.Decided > 0 \/ counts.PostConsensus > 0

\* ------------------------------------------------------------------ claims

\* C1: Validate of a Proposal returns ErrUnexpectedMessageType exactly when
\* the key's Commit, Decided or PostConsensus count is greater than zero;
\* with all three at zero the Proposal is accepted.
C1_ProposalAfterLater ==
    IsQBFT("Proposal") =>
        /\ Rejected <=> LaterSeen
        /\ ~LaterSeen => err = NoError

C1_Witness ==
    /\ IsQBFT("Proposal")
    /\ counts.Commit > 0
    /\ Rejected

\* C2: Validate of a single-signer Commit succeeds exactly when Commit,
\* Decided and PostConsensus are all zero, whatever the other counts are;
\* the Commit count never exceeds 1.
C2_SingleCommitOnce ==
    /\ IsSingleCommit => ((err = NoError) <=> ~LaterSeen)
    /\ IsSingleCommit /\ LaterSeen => Rejected
    /\ counts.Commit <= 1

C2_Witness ==
    /\ IsSingleCommit
    /\ counts.Commit = 1
    /\ counts.Proposal > 0
    /\ Rejected

\* C3 (as claimed): under Validate-then-Record processing the Proposal count
\* of a key never exceeds 1.
C3_ProposalAtMostOnce == counts.Proposal <= 1

\* C4: Validate of a Prepare is rejected with ErrUnexpectedMessageType exactly
\* when Prepare, Commit, Decided or PostConsensus is greater than zero and is
\* accepted otherwise; the Prepare count never exceeds 1.
C4_PrepareOnceAndEarly ==
    /\ IsQBFT("Prepare") =>
          /\ Rejected <=> (counts.Prepare > 0 \/ LaterSeen)
          /\ ~Rejected => err = NoError
    /\ counts.Prepare <= 1

C4_Witness ==
    /\ IsQBFT("Prepare")
    /\ counts.Prepare = 1
    /\ ~LaterSeen
    /\ Rejected

\* C5 (as claimed): a Decided delivery (Commit with more than one signer) is
\* accepted by Validate as long as the Decided count is below the Decided
\* limit committeeSize+1 and no PostConsensus has been recorded, and it is
\* rejected once a PostConsensus has been recorded.
C5_DecidedUpToLimit ==
    IsDecided =>
        /\ (counts.Decided < limits.Decided /\ counts.PostConsensus = 0)
              => err = NoError
        /\ counts.PostConsensus > 0 => Rejected

\* C6: from fresh counts Proposal, Prepare, single-signer Commit are each
\* accepted and recorded in turn, leaving Proposal = Prepare = Commit = 1;
\* a second single-signer Commit is then rejected and changes nothing.
C6_ProposalPrepareCommit ==
    [][/\ (Validated(ProposalMsg) /\ counts = ZeroCounts)
            => (err = NoError /\ counts' = MessageCounts(0, 1, 0, 0, 0, 0, 0))
       /\ (Validated(PrepareMsg) /\ counts = MessageCounts(0, 1, 0, 0, 0, 0, 0))
            => (err = NoError /\ counts' = MessageCounts(0, 1, 1, 0, 0, 0, 0))
       /\ (Validated(SingleCommitMsg) /\ counts = MessageCounts(0, 1, 1, 0, 0, 0, 0))
            => (err = NoError /\ counts' = MessageCounts(0, 1, 1, 1, 0, 0, 0))
       /\ (Validated(SingleCommitMsg) /\ counts = MessageCounts(0, 1, 1, 1, 0, 0, 0))
            => (Rejected /\ counts' = counts)
      ]_vars

C6_Witness ==
    /\ Validated(SingleCommitMsg)
    /\ counts = MessageCounts(0, 1, 1, 1, 0, 0, 0)
    /\ Rejected

\* C7: ReachedLimits(limits) is true exactly when at least one of the seven
\* counts is greater than or equal to its limit; one kind at its limit with
\* all other counts at zero is enough.
C7_ReachedLimitsIsOr ==
    lastOp = "ReachedLimits" =>
        (reached <=> \E k \in Kinds : counts[k] >= limits[k])

C7_Witness ==
    /\ lastOp = "ReachedLimits"
    /\ reached
    /\ counts = MessageCounts(0, 0, 0, 0, 0, 1, 0)

\* C8: for every committee size C >= 1, maxMessageCounts(C) has Decided = C+1
\* and every other limit equal to 1.
C8_Limits ==
    /\ limits.Decided = committeeSize + 1
    /\ \A k \in Kinds \ {"Decided"} : limits[k] = 1

C8_Witness ==
    /\ committeeSize = 4
    /\ limits.Decided = 5
    /\ lastOp = "ReachedLimits"

\* C9 (as claimed): Validate rejects with an unexpected-message-type error
\* (ErrUnexpectedMessageType, or the "unexpected message type" error of the
\* body switch) every message of an unrecognized kind: a body that is neither
\* message type, a consensus message of an unknown QBFT type, a
\* partial-signature message of an unknown type.
Unrecognized(m) ==
    \/ m.body = "Other"
    \/ m.body = "SignedMessage" /\ m.type = "UnknownQBFT"
    \/ m.body = "SignedPartialSignatureMessage" /\ m.type = "UnknownPartialSig"

C9_UnrecognizedRejected ==
    (pc = "validated" /\ Unrecognized(msg)) =>
        (Rejected \/ err = ErrorfUnexpectedBody)

\* C10: Validate accepts a RoundChange when the RoundChange count is zero,
\* whatever the other counts are, and rejects it with
\* ErrUnexpectedMessageType when it is greater than zero; the RoundChange
\* count never exceeds 1.
C10_RoundChangeOnce ==
    /\ IsQBFT("RoundChange") =>
          /\ Rejected <=> counts.RoundChange > 0
          /\ counts.RoundChange = 0 => err = NoError
    /\ counts.RoundChange <= 1

C10_Witness ==
    /\ IsQBFT("RoundChange")
    /\ counts.RoundChange = 1
    /\ Rejected

IsPartialSig == pc = "validated" /\ msg.body = "SignedPartialSignatureMessage"

\* C11: Randao, SelectionProof, ContributionProofs and ValidatorRegistration
\* partial signatures all count in PreConsensus, PostConsensus partial
\* signatures in PostConsensus; a second message of either class is rejected
\* and neither count exceeds 1.
C11_PartialSigOnce ==
    /\ (IsPartialSig /\ msg.type \in PreConsensusTypes) =>
          /\ Rejected <=> counts.PreConsensus > 0
          /\ counts.PreConsensus = 0 => err = NoError
    /\ (IsPartialSig /\ msg.type = "PostConsensus") =>
          /\ Rejected <=> counts.PostConsensus > 0
          /\ counts.PostConsensus = 0 => err = NoError
    /\ (lastOp = "Record" /\ msg.body = "SignedPartialSignatureMessage"
          /\ msg.type \in PreConsensusTypes) => counts.PreConsensus = 1
    /\ (lastOp = "Record" /\ msg.body = "SignedPartialSignatureMessage"
          /\ msg.type = "PostConsensus") => counts.PostConsensus = 1
    /\ counts.PreConsensus <= 1
    /\ counts.PostConsensus <= 1

C11_Witness ==
    /\ IsPartialSig
    /\ msg.type = "ValidatorRegistration"
    /\ counts.PreConsensus = 1
    /\ Rejected

\* C12: no step of the pipeline (Validate, Record, ReachedLimits) lowers or
\* resets any of the seven counts.
C12_CountsMonotonic ==
    [][\A k \in Kinds : counts'[k] >= counts[k]]_vars

C12_Witness ==
    /\ lastOp = "Record"
    /\ counts.Proposal = 1
    /\ counts.Prepare = 1
    /\ counts.RoundChange = 1

\* C20 (as claimed): for every message Validate accepts, Record increments
\* exactly one of the seven counts by exactly 1 and leaves the others alone.
C20_RecordExactlyOne ==
    [][(pc = "validated" /\ err = NoError) =>
          \E k \in Kinds : counts' = [counts EXCEPT ![k] = @ + 1]]_vars

\* C14 (as claimed): no call of Validate, Record or ReachedLimits, with any
\* message (a body of unrecognized kind and a Commit with zero signers
\* included), ends in a panic.
C14_NoCrash == ~panicked

\* The kinds whose case in Validate tests the kind's own count.
OnceOnlyKinds == {"PreConsensus", "Prepare", "Commit", "RoundChange",
                  "PostConsensus"}

BothDeliver(k, at) ==
    \A w \in Workers : wpc[w] = at /\ RecordedKind(wmsg[w]) = k

\* C13: the counter has no atomic check-then-increment.  Two deliveries of
\* the same once-only kind that interleave without a lock both pass Validate
\* (each validated against the still-empty counts); under the per-key lock
\* exactly one of the two is accepted and the count stays at 1.
C13_SerializedOnce ==
    \A k \in OnceOnlyKinds :
        /\ useLock => counts[k] <= 1
        /\ (useLock /\ BothDeliver(k, "done")) =>
              /\ counts[k] = 1
              /\ \E w \in Workers :
                    /\ werr[w] = NoError
                    /\ \A v \in Workers \ {w} :
                          werr[v].kind = "ErrUnexpectedMessageType"
        /\ (~useLock /\ BothDeliver(k, "validated") /\ counts = ZeroCounts) =>
              \A w \in Workers : werr[w] = NoError

C13_Witness ==
    /\ ~useLock
    /\ BothDeliver("Prepare", "done")
    /\ \A w \in Workers : werr[w] = NoError
    /\ counts.Prepare = 2

\* C19: every traced event increments the counter labelled with its kind
\* exactly once and no other counter; a debug record of the event is emitted
\* exactly when the tracer was constructed with logging; nothing is filtered
\* or buffered.
C19_TraceCountsAndLogs ==
    [][\E e \in EventTypes :
          /\ lastEvt' = e
          /\ metricsPubsubTrace' =
                [metricsPubsubTrace EXCEPT ![e] = metricsPubsubTrace[e] + 1]
          /\ debugLogs' = IF tracerState = psTraceStateWithLogging
                          THEN debugLogs \o <<e>>
                          ELSE debugLogs
          /\ (tracerState = psTraceStateWithReporting) => debugLogs' = <<>>
      ]_vars

C19_Witness ==
    /\ tracerState = psTraceStateWithLogging
    /\ metricsPubsubTrace["GRAFT"] = 2
    /\ debugLogs = <<"GRAFT", "GRAFT">>

InvalidOf(pid, t) == scores[pid].Topics[t].InvalidMessageDeliveries

RootOf(v, c) == IF v > 0 THEN c * c = v ELSE c = 0

C16_LowScoreStrict ==
    \A pid \in inspected :
        /\ peerLogs[pid][1].low_score <=> scores[pid].Score < -1000
        /\ scores[pid].Score = -1000 => ~peerLogs[pid][1].low_score
        /\ scores[pid].Score = -1001 => peerLogs[pid][1].low_score

C16_Witness ==
    /\ inspected = Peers
    /\ scores["p1"].Score = -1000
    /\ ~peerLogs["p1"][1].low_score
    /\ scores["p2"].Score = -1001
    /\ peerLogs["p2"][1].low_score

\* C17: for every topic the factory returns nil when the validator-statistics
\* read fails and when the parameter derivation fails; it returns a non-nil
\* result only when both succeed.
C17_NilOnFailure ==
    tspLogs # <<>> =>
        /\ tspCall.stats.err => tspResult = NilParams
        /\ tspCall.deriveFails => tspResult = NilParams
        /\ ~tspResult.nil => (~tspCall.stats.err /\ ~tspCall.deriveFails)

C17_Witness ==
    /\ tspCall.topic = "t2"
    /\ tspCall.stats.err
    /\ ~tspCall.deriveFails
    /\ tspResult = NilParams
    /\ tspLogs = <<"could not read stats: active validators">>

\* C18: for a nil message the builder returns, without failing, a non-nil
\* descriptor with no duty identifier, role, message type, slot, operator
\* set, round or QBFT type populated.
C18_NilGivesZeroDescriptor ==
    (decodedMessage.isNil /\ descriptor.state # "none") =>
        /\ descriptor.state = "built"
        /\ descriptor.DutyExecutorID = <<>>
        /\ descriptor.Role = 0
        /\ descriptor.SSVMessageType = 0
        /\ descriptor.Slot = 0
        /\ descriptor.OperatorIDs = <<>>
        /\ descriptor.Consensus.Round = 0
        /\ descriptor.Consensus.QBFTMessageType = 0

C18_Witness ==
    /\ decodedMessage.isNil
    /\ descriptor = ZeroLoggerFields

\* C21: Validate and ReachedLimits never modify the counts: whether Validate
\* accepts or rejects, all seven counts are what they were before the call;
\* only Record changes them.
C21_ValidateLeavesCounts ==
    [][/\ lastOp' \in {"Validate", "ReachedLimits"} => counts' = counts
       /\ counts' # counts => lastOp' = "Record"
      ]_vars

C21_Witness ==
    /\ lastOp = "Validate"
    /\ msg = SingleCommitMsg
    /\ err.kind = "ErrUnexpectedMessageType"
    /\ counts = MessageCounts(0, 0, 0, 1, 0, 0, 0)

MeshOf(pid, t) == scores[pid].Topics[t].MeshMessageDeliveries

\* C22: a peer's low-mesh-delivery tally is the number of its topics that
\* have configured score parameters and MeshMessageDeliveries strictly below
\* the configured threshold; topics without parameters never count and a
\* value equal to the threshold does not count.
C22_LowMeshTally ==
    \A pid \in inspected :
        /\ peerLogs[pid][1].total_low_mesh_deliveries =
              Cardinality({t \in Topics \cap DOMAIN peerScoreParams.Topics :
                  MeshOf(pid, t) <
                      peerScoreParams.Topics[t].MeshMessageDeliveriesThreshold})
        /\ MeshOf(pid, "t1") = 1 =>
              peerLogs[pid][1].total_low_mesh_deliveries = 0
        /\ peerLogs[pid][1].total_low_mesh_deliveries <= 1

C22_Witness ==
    /\ "p1" \in inspected
    /\ MeshOf("p1", "t1") = 0
    /\ MeshOf("p1", "t2") = 0
    /\ peerLogs["p1"][1].total_low_mesh_deliveries = 1

NonDecidedSeen == \E k \in Kinds \ {"Decided"} : counts[k] > 0

\* C24: with limits = maxMessageCounts(C), ReachedLimits is false exactly
\* when all six non-Decided counts are zero and Decided <= C; once a
\* Proposal, Prepare, single-signer Commit, RoundChange, PreConsensus or
\* PostConsensus message has been recorded it is true and remains so.
C24_ReachedAfterFirstRecord ==
    [][/\ lastOp' = "ReachedLimits" =>
             (~reached' <=> (~NonDecidedSeen' /\ counts'.Decided <= committeeSize'))
       /\ NonDecidedSeen => NonDecidedSeen'
       /\ (NonDecidedSeen /\ lastOp' = "ReachedLimits") => reached'
      ]_vars

C24_Witness ==
    /\ lastOp = "ReachedLimits"
    /\ ~reached
    /\ committeeSize = 2
    /\ counts = MessageCounts(0, 0, 0, 0, 2, 0, 0)

SameKey(m1, m2) ==
    /\ m1.Identifier = m2.Identifier
    /\ m1.Slot = m2.Slot
    /\ Len(m1.Signers) = Len(m2.Signers)

\* a message of m's key was sent to feed f within the TTL before time t
SentWithinTTL(m, f, t) ==
    \E i \in 1..Len(f) :
        SameKey(f[i].msg, m) /\ t <= f[i].at + DefaultExpiration

HandlerStep == lastHandled' # lastHandled \/ feed' # feed

\* C25: with the handler's invocations following one another, a decided
\* message is sent to the broadcast feed if and only if no message of the
\* same key (identifier, slot, number of signers) was sent within the
\* cache's one-minute TTL: a key is broadcast at most once per TTL window,
\* messages differing in identifier, slot or signer count are each broadcast,
\* and a key is broadcast again after its entry expired.
C25_SentIffNotRecent ==
    [][HandlerStep =>
         /\ lastHandled'.sent <=>
               ~SentWithinTTL(lastHandled'.msg, feed, now)
         /\ feed' = IF lastHandled'.sent
                    THEN Append(feed, APIMsg(lastHandled'.msg, now))
                    ELSE feed
      ]_vars

C25_Witness ==
    /\ Len(feed) = 2
    /\ SameKey(feed[1].msg, feed[2].msg)
    /\ feed[2].at > feed[1].at + DefaultExpiration
    /\ lastHandled.msg.Signers # feed[2].msg.Signers
    /\ SameKey(lastHandled.msg, feed[2].msg)
    /\ ~lastHandled.sent
    /\ lastHandled.at = feed[2].at

\* C26: the at-most-one-broadcast-per-key-per-TTL guarantee also holds when
\* the handler is invoked concurrently: of two invocations carrying the same
\* key, at most one sends to the broadcast feed.
C26_AtMostOneSendPerKey ==
    \A i, j \in 1..Len(feed) :
        (i < j /\ SameKey(feed[i].msg, feed[j].msg)) =>
            feed[j].at > feed[i].at + DefaultExpiration

====
